---- MODULE Spec2Model ----
(***************************************************************************)
(* Model of dataprep's data_connector.Connector: one call of               *)
(* Connector.query, with Connector._fetch unfolded into its steps.  The    *)
(* HTTP session (Transport), the table's from_response (Decoder), the      *)
(* authorization scheme and the field templates are the environment.       *)
(***************************************************************************)
EXTENDS Integers, Sequences, FiniteSets, TLC

\* ---------------------------------------------------------------- bounds
MaxCount == 2        \* largest configured max_count
MaxR == 5            \* largest "returned_number" a caller asks for
MaxPages == 3        \* longest page plan a call may need

\* ------------------------------------------------ configuration of impdb
count_key == "count"
cursor_key == "max_id"
anchor_key == "offset"
cursor_id == "id"

PagTypes == {"cursor", "limit", "none"}

\* ------------------------------------------------------------ dictionaries
EmptyDict == <<>>

Put(d, k, v) == [x \in (DOMAIN d) \cup {k} |-> IF x = k THEN v ELSE d[x]]

Pop(d, k) == [x \in (DOMAIN d) \ {k} |-> d[x]]

\* {**a, **b}: the entries of b win
MergeDicts(a, b) ==
    [x \in (DOMAIN a) \cup (DOMAIN b) |-> IF x \in DOMAIN b THEN b[x] ELSE a[x]]

\* -------------------------------------------------------- field templates
\* A field is either a template "{{var}}" or a boolean flag (documentation
\* only).  A rendered value is the text of the variable's value.
Tpl(v) == [flag |-> FALSE, var |-> v]

Flag == [flag |-> TRUE, var |-> ""]

Rendered(v) == <<"text", v>>

NoFields == [defined |-> FALSE, fields |-> EmptyDict]

Fields(f) == [defined |-> TRUE, fields |-> f]

TemplateKeys(g) == {k \in DOMAIN g.fields : ~g.fields[k].flag}

\* jinja2's default: an undefined variable renders as the empty text
jenv_Default == [undefined |-> "Undefined"]

\* self.jenv = Environment(undefined=StrictUndefined)
jenv == [undefined |-> "StrictUndefined"]

\* Fields.populate under StrictUndefined: a referenced variable that is
\* absent is an error, never an empty value
PopulateOk(g, vars) ==
    jenv.undefined = "StrictUndefined"
        => \A k \in TemplateKeys(g) : g.fields[k].var \in DOMAIN vars

Populate(g, vars) ==
    [k \in TemplateKeys(g) |->
        IF g.fields[k].var \in DOMAIN vars
        THEN Rendered(vars[g.fields[k].var])
        ELSE Rendered("")]

\* ------------------------------------------------------------------ tables
Tables ==
    [ search |-> [ authorization |-> TRUE,
                   headers |-> NoFields,
                   params  |-> Fields([q |-> Tpl("q"), count |-> Tpl("count"),
                                       lang |-> Flag]),
                   cookies |-> NoFields,
                   body    |-> NoFields,
                   body_ctype |-> "application/json" ],
      post   |-> [ authorization |-> FALSE,
                   headers |-> Fields([agent |-> Tpl("agent")]),
                   params  |-> NoFields,
                   cookies |-> Fields([n |-> Tpl("count")]),
                   body    |-> Fields([q |-> Tpl("q")]),
                   body_ctype |-> "application/x-www-form-urlencoded" ],
      signed |-> [ authorization |-> TRUE,
                   headers |-> Fields([Authorization |-> Tpl("q")]),
                   params  |-> NoFields,
                   cookies |-> NoFields,
                   body    |-> Fields([q |-> Tpl("q")]),
                   body_ctype |-> "application/json" ],
      blob   |-> [ authorization |-> FALSE,
                   headers |-> NoFields,
                   params  |-> NoFields,
                   cookies |-> NoFields,
                   body    |-> Fields([n |-> Tpl("count")]),
                   body_ctype |-> "application/octet-stream" ] ]

TableNames == {"search", "post", "signed", "blob", "nosuch"}

FieldKeys == <<"headers", "params", "cookies">>

\* ------------------------------------------------------------ environment
\* what Session.send can give back: a response, or an exception
Responses ==
    {[raised |-> FALSE, status_code |-> 200, text |-> "rows"],
     [raised |-> FALSE, status_code |-> 201, text |-> "created"],
     [raised |-> FALSE, status_code |-> 404, text |-> "not found"],
     [raised |-> FALSE, status_code |-> 404, text |-> "gone"],
     [raised |-> TRUE,  status_code |-> 0,   text |-> ""]}

NoResp == [raised |-> FALSE, status_code |-> 0, text |-> ""]

\* the cursor column's cells are text
Cells == {"5", "abc"}

OtherCell == "9"

IsNumeral(s) == s \in {"5", "9"}

\* int(s), defined on numerals
IntOf(s) == CASE s = "5" -> 5 [] s = "9" -> 9

\* ------------------------------------------------------------------ frames
\* df starts as an empty DataFrame
EmptyList_Frame == [isframe |-> TRUE, columns |-> {}, rows |-> <<>>]

\* df = []
EmptyList == [isframe |-> FALSE, columns |-> {}, rows |-> <<>>]

\* a decoded page: k rows indexed 0..k-1, row j carrying the data of the
\* j-th record of page p; the last row's cursor cell is c
Frame(p, k, hasCol, c) ==
    [isframe |-> TRUE,
     columns |-> IF hasCol THEN {"data", cursor_id} ELSE {"data"},
     rows |-> [j \in 1..k |->
                 [index |-> j - 1,
                  data |-> <<p, j - 1>>,
                  id |-> IF ~hasCol THEN "NaN"
                         ELSE IF j = k THEN c ELSE OtherCell]]]

\* pd.concat([a, b], axis=0): rows of a then rows of b, indices kept
Concat(a, b) ==
    [isframe |-> TRUE,
     columns |-> a.columns \cup b.columns,
     rows |-> a.rows \o b.rows]

\* the index is left as concat built it
ResetIndex_Keep(f) == f

\* reset_index(drop=True)
ResetIndex(f) ==
    [f EXCEPT !.rows = [j \in 1..Len(f.rows) |-> [f.rows[j] EXCEPT !.index = j - 1]]]

\* ------------------------------------------------------------------ errors
NoErr == [type |-> "none", status_code |-> 0, message |-> ""]

Error(t) == [type |-> t, status_code |-> 0, message |-> ""]

\* the body is dropped
RequestError_StatusOnly(resp) ==
    [type |-> "RequestError", status_code |-> resp.status_code, message |-> ""]

RequestError(resp) ==
    [type |-> "RequestError", status_code |-> resp.status_code, message |-> resp.text]

NoReturn == [returned |-> FALSE, value |-> EmptyList]

\* ------------------------------------------------------------- arithmetic
\* rounds down
Ceil_Floor(a, b) == a \div b

\* one page more than the whole pages
Ceil_FloorPlusOne(a, b) == a \div b + 1

\* math.ceil(a / b) for b > 0
Ceil(a, b) == -((-a) \div b)

\* ------------------------------------------------------------------- state
VARIABLES
    config,       \* impdb.config["request"]["paganition"]: type, max_count
    self_vars,    \* Connector.vars
    self_auth,    \* Connector.auth_params
    table,        \* query's table argument
    auth_params,  \* query's auth_params argument (EmptyDict for None)
    requested,    \* the caller's **where as passed
    where,        \* query's where dict, rewritten page after page
    pc,           \* position in query / _fetch
    branch,       \* "single": no returned_number given; "paged": the loop
    n_page, remain, i, last_id,
    df, df_,      \* the accumulated table and the current page
    resp,         \* the response of the current page
    req_data, merged_vars, key_ix,   \* locals of _fetch
    authorized,   \* calls of authorization.build, one entry per call
    sent,         \* the requests handed to Session.send, in order
    decoded,      \* the responses handed to from_response, in order
    err, ret      \* how query ended: exception or return value

vars == <<config, self_vars, self_auth, table, auth_params, requested, where,
          pc, branch, n_page, remain, i, last_id, df, df_, resp,
          req_data, merged_vars, key_ix, authorized, sent, decoded, err, ret>>

inputs == <<config, self_vars, self_auth, table, auth_params, requested>>

fetchLocals == <<req_data, merged_vars, key_ix>>

loopVars == <<branch, n_page, remain, i, last_id>>

max_count == config.max_count

pag_type == config.type

\* the caller's keyword arguments, without and with "returned_number"
BaseWheres == {EmptyDict, [q |-> 7, max_id |-> 40, count |-> 9]}

Wheres == BaseWheres \cup
          {Put(w, "returned_number", r) : w \in BaseWheres, r \in 0..MaxR}

SelfVars == {EmptyDict, [q |-> 3, agent |-> 1], [agent |-> 1]}

Init ==
    /\ config \in [type : PagTypes, max_count : 1..MaxCount]
    /\ self_vars \in SelfVars
    /\ self_auth = [token |-> 1]
    /\ table \in TableNames
    /\ auth_params \in {EmptyDict, [token |-> 2]}
    /\ requested \in Wheres
    /\ "returned_number" \in DOMAIN requested
           => Ceil(requested["returned_number"], config.max_count) <= MaxPages
    /\ where = requested
    /\ pc = "query"
    /\ branch = "none"
    /\ n_page = 0
    /\ remain = 0
    /\ i = 0
    /\ last_id = 0
    /\ df = EmptyList
    /\ df_ = EmptyList
    /\ resp = NoResp
    /\ req_data = EmptyDict
    /\ merged_vars = EmptyDict
    /\ key_ix = 1
    /\ authorized = <<>>
    /\ sent = <<>>
    /\ decoded = <<>>
    /\ err = NoErr
    /\ ret = NoReturn

\* an exception leaves query: nothing is returned
Raise(e) ==
    /\ pc' = "error"
    /\ err' = e
    /\ ret' = NoReturn

\* ------------------------------------------------------------------- query
\* every name passes the assert
KnownTable_Any(t) == TRUE

\* table in self.impdb.tables
KnownTable(t) == t \in DOMAIN Tables

\* the single page also carries an anchor of 0
SinglePageWhere_Anchored(w, maxc) ==
    Put(Put(w, "returned_number", maxc), anchor_key, 0)

\* where["returned_number"] = max_count, when the caller gave no total
SinglePageWhere(w, maxc) == Put(w, "returned_number", maxc)

\* the assert, then planning
Query ==
    /\ pc = "query"
    /\ IF ~KnownTable(table)
       THEN /\ Raise(Error("AssertionError"))
            /\ UNCHANGED <<where, loopVars>>
       ELSE IF "returned_number" \notin DOMAIN where
       THEN /\ where' = SinglePageWhere(where, max_count)
            /\ branch' = "single"
            /\ pc' = "fetch"
            /\ UNCHANGED <<n_page, remain, i, last_id, err, ret>>
       ELSE /\ n_page' = Ceil(where["returned_number"], max_count)
            /\ remain' = where["returned_number"] % max_count
            /\ last_id' = 0
            /\ branch' = "paged"
            /\ pc' = "loop"
            /\ UNCHANGED <<where, i, err, ret>>
    /\ UNCHANGED <<inputs, df, df_, resp, fetchLocals, authorized, sent, decoded>>

\* the last page asks for the remainder even when it is 0
PageSize_RemainderOnly(p, n, rem, maxc) ==
    IF p < n - 1 THEN maxc ELSE rem

\* the returned_number of page p
PageSize(p, n, rem, maxc) ==
    IF p < n - 1 THEN maxc ELSE IF rem # 0 THEN rem ELSE maxc

\* the cursor is taken from the top of the accumulated table
CursorParam_FromFirstRow(last) == IntOf(df.rows[1].id) - 2

\* the cursor parameter of a page after the first
CursorParam(last) == last - 1

\* pages counted from 1
AnchorParam_OneBased(p, maxc) == (p + 1) * maxc

\* the anchor parameter of page p
AnchorParam(p, maxc) == 0 + p * maxc

\* what int(...) - 1 keeps of the last row's cursor cell
NextLastId(cell) == IntOf(cell) - 1

\* the loop ends as soon as a page came back shorter than asked for
LoopHead_StopOnShortPage ==
    /\ pc = "loop"
    /\ IF i < n_page /\ ~(i > 0 /\ Len(df_.rows) < where["returned_number"])
       THEN LET w1 == Put(where, "returned_number", PageSize(i, n_page, remain, max_count))
                w2 == IF pag_type = "cursor" /\ i > 0
                      THEN Put(w1, cursor_key, CursorParam(last_id)) ELSE w1
                w3 == IF pag_type = "limit"
                      THEN Put(w2, anchor_key, AnchorParam(i, max_count)) ELSE w2
            IN /\ where' = w3
               /\ pc' = "fetch"
       ELSE /\ pc' = "reset_index"
            /\ UNCHANGED where
    /\ UNCHANGED <<inputs, loopVars, df, df_, resp, fetchLocals, authorized,
                   sent, decoded, err, ret>>

\* head of "for i in range(n_page)" and the parameters of page i
LoopHead ==
    /\ pc = "loop"
    /\ IF i < n_page
       THEN LET w1 == Put(where, "returned_number", PageSize(i, n_page, remain, max_count))
                w2 == IF pag_type = "cursor" /\ i > 0
                      THEN Put(w1, cursor_key, CursorParam(last_id)) ELSE w1
                w3 == IF pag_type = "limit"
                      THEN Put(w2, anchor_key, AnchorParam(i, max_count)) ELSE w2
            IN /\ where' = w3
               /\ pc' = "fetch"
       ELSE /\ pc' = "reset_index"
            /\ UNCHANGED where
    /\ UNCHANGED <<inputs, loopVars, df, df_, resp, fetchLocals, authorized,
                   sent, decoded, err, ret>>

\* ------------------------------------------------------------------ _fetch
\* "returned_number" is left under its own name
MergedVars_NoRename(selfv, kwargs) == MergeDicts(selfv, kwargs)

\* a count the caller or the connector already set is kept
MergedVars_KeepCount(selfv, kwargs) ==
    LET m == MergeDicts(selfv, kwargs)
    IN IF "returned_number" \in DOMAIN m /\ count_key \notin DOMAIN m
       THEN Put(Pop(m, "returned_number"), count_key, m["returned_number"])
       ELSE m

\* the variable context of one page: connector variables, overridden by the
\* call's, with "returned_number" renamed to the configured count key
MergedVars(selfv, kwargs) ==
    LET m == MergeDicts(selfv, kwargs)
    IN IF "returned_number" \in DOMAIN m
       THEN Put(Pop(m, "returned_number"), count_key, m["returned_number"])
       ELSE m

\* "auth_params or self.auth_params": None and {} both fall back
EffectiveAuth(a, selfa) == IF a = EmptyDict THEN selfa ELSE a

\* authorization.build: writes the credential into the headers
Authorize(rd, auth) ==
    [rd EXCEPT !["headers"] = Put(rd["headers"], "Authorization", <<"Bearer", auth.token>>)]

\* keys already in the group are kept
UpdateGroup_KeepExisting(rd, key, fields) ==
    [rd EXCEPT ![key] = MergeDicts(fields, rd[key])]

\* req_data[key].update(**fields)
UpdateGroup(rd, key, fields) == [rd EXCEPT ![key] = MergeDicts(rd[key], fields)]

\* the fresh req_data and the merged variables
FetchVars ==
    /\ pc = "fetch"
    /\ req_data' = [headers |-> EmptyDict, params |-> EmptyDict, cookies |-> EmptyDict]
    /\ merged_vars' = MergedVars(self_vars, where)
    /\ key_ix' = 1
    /\ pc' = "fetch_auth"
    /\ UNCHANGED <<inputs, where, loopVars, df, df_, resp, authorized, sent,
                   decoded, err, ret>>

FetchAuthorize ==
    /\ pc = "fetch_auth"
    /\ IF Tables[table].authorization
       THEN LET a == EffectiveAuth(auth_params, self_auth)
            IN /\ req_data' = Authorize(req_data, a)
               /\ authorized' = Append(authorized,
                                        [page |-> i, auth |-> a, req |-> req_data])
       ELSE UNCHANGED <<req_data, authorized>>
    /\ pc' = "fetch_fields"
    /\ UNCHANGED <<inputs, where, loopVars, df, df_, resp, merged_vars, key_ix,
                   sent, decoded, err, ret>>

\* one turn of "for key in [headers, params, cookies]"
FetchFields ==
    /\ pc = "fetch_fields"
    /\ LET key == FieldKeys[key_ix]
           g == Tables[table][key]
       IN IF g.defined /\ ~PopulateOk(g, merged_vars)
          THEN /\ Raise(Error("UndefinedError"))
               /\ UNCHANGED <<req_data, key_ix>>
          ELSE /\ req_data' = IF g.defined
                              THEN UpdateGroup(req_data, key, Populate(g, merged_vars))
                              ELSE req_data
               /\ key_ix' = key_ix + 1
               /\ pc' = IF key_ix = Len(FieldKeys) THEN "fetch_body" ELSE "fetch_fields"
               /\ UNCHANGED <<err, ret>>
    /\ UNCHANGED <<inputs, where, loopVars, df, df_, resp, merged_vars,
                   authorized, sent, decoded>>

\* a content type that is not json goes out as a form
BodySlot_FormByDefault(ctype) ==
    IF ctype = "application/json" THEN "json" ELSE "data"

\* the req_data entry the body goes to, by content type
BodySlot(ctype) ==
    IF ctype = "application/x-www-form-urlencoded" THEN "data"
    ELSE IF ctype = "application/json" THEN "json"
    ELSE "unreachable"

FetchBody ==
    /\ pc = "fetch_body"
    /\ LET t == Tables[table]
       IN IF ~t.body.defined
          THEN /\ pc' = "fetch_send"
               /\ UNCHANGED <<req_data, err, ret>>
          ELSE IF ~PopulateOk(t.body, merged_vars)
          THEN /\ Raise(Error("UndefinedError"))
               /\ UNCHANGED req_data
          ELSE IF BodySlot(t.body_ctype) # "unreachable"
          THEN /\ req_data' = Put(req_data, BodySlot(t.body_ctype),
                                  Populate(t.body, merged_vars))
               /\ pc' = "fetch_send"
               /\ UNCHANGED <<err, ret>>
          ELSE /\ Raise(Error("UnreachableError"))
               /\ UNCHANGED req_data
    /\ UNCHANGED <<inputs, where, loopVars, df, df_, resp, merged_vars, key_ix,
                   authorized, sent, decoded>>

\* session.send(Request(...).prepare()): the request goes out and the
\* transport answers or raises
FetchSend ==
    /\ pc = "fetch_send"
    /\ sent' = Append(sent, [page |-> i, vars |-> merged_vars, req |-> req_data])
    /\ \E r \in Responses :
         /\ resp' = r
         /\ IF r.raised
            THEN Raise(Error("ConnectionError"))
            ELSE /\ pc' = "fetch_status"
                 /\ UNCHANGED <<err, ret>>
    /\ UNCHANGED <<inputs, where, loopVars, df, df_, fetchLocals, authorized,
                   decoded>>

\* only server errors are refused
StatusOk_Not5xx(r) == r.status_code < 500

StatusOk(r) == r.status_code = 200

FetchStatus ==
    /\ pc = "fetch_status"
    /\ IF ~StatusOk(resp)
       THEN Raise(RequestError(resp))
       ELSE /\ pc' = "from_response"
            /\ UNCHANGED <<err, ret>>
    /\ UNCHANGED <<inputs, where, loopVars, df, df_, resp, fetchLocals,
                   authorized, sent, decoded>>

\* ------------------------------------------------------- back in query
\* the pages from_response can decode: the source honours the requested
\* count, so a page has at most that many rows
Pages(p, size) ==
    {Frame(p, 0, TRUE, OtherCell)} \cup
    {Frame(p, k, hasCol, c) : k \in 1..size, hasCol \in BOOLEAN, c \in Cells}

\* itable.from_response(resp): a decoded page, or a decode error
FromResponse ==
    /\ pc = "from_response"
    /\ \/ /\ Raise(Error("DecodeError"))
          /\ decoded' = Append(decoded, [page |-> i, resp |-> resp, nrows |-> 0])
          /\ UNCHANGED <<df, df_>>
       \/ \E f \in Pages(i, merged_vars[count_key]) :
            /\ decoded' = Append(decoded, [page |-> i, resp |-> resp,
                                           nrows |-> Len(f.rows)])
            /\ IF branch = "single"
               THEN /\ df' = f
                    /\ pc' = "return"
                    /\ UNCHANGED df_
               ELSE /\ df_' = f
                    /\ pc' = "last_id"
                    /\ UNCHANGED df
            /\ UNCHANGED <<err, ret>>
    /\ UNCHANGED <<inputs, where, loopVars, resp, fetchLocals, authorized, sent>>

\* series[label]: the cells of the rows carrying that index label
CellsAt(f, label) == {f.rows[j].id : j \in {x \in 1..Len(f.rows) : f.rows[x].index = label}}

\* df_[cursor_id][len(df_) - 1] can be read
CursorCellOk(f) == cursor_id \in f.columns /\ CellsAt(f, Len(f.rows) - 1) # {}

CursorCell(f) == CHOOSE c \in CellsAt(f, Len(f.rows) - 1) : TRUE

\* the cursor is not read on the last page of the plan
UpdateLastId_SkipFinal ==
    /\ pc = "last_id"
    /\ IF pag_type # "cursor" \/ i = n_page - 1
       THEN /\ pc' = "accumulate"
            /\ UNCHANGED <<last_id, err, ret>>
       ELSE IF ~CursorCellOk(df_)
       THEN /\ Raise(Error("KeyError"))
            /\ UNCHANGED last_id
       ELSE IF ~IsNumeral(CursorCell(df_))
       THEN /\ Raise(Error("ValueError"))
            /\ UNCHANGED last_id
       ELSE /\ last_id' = NextLastId(CursorCell(df_))
            /\ pc' = "accumulate"
            /\ UNCHANGED <<err, ret>>
    /\ UNCHANGED <<inputs, where, branch, n_page, remain, i, df, df_, resp,
                   fetchLocals, authorized, sent, decoded>>

\* last_id = int(df_[cursor_id][len(df_) - 1]) - 1, under the cursor type
UpdateLastId ==
    /\ pc = "last_id"
    /\ IF pag_type # "cursor"
       THEN /\ pc' = "accumulate"
            /\ UNCHANGED <<last_id, err, ret>>
       ELSE IF ~CursorCellOk(df_)
       THEN /\ Raise(Error("KeyError"))
            /\ UNCHANGED last_id
       ELSE IF ~IsNumeral(CursorCell(df_))
       THEN /\ Raise(Error("ValueError"))
            /\ UNCHANGED last_id
       ELSE /\ last_id' = NextLastId(CursorCell(df_))
            /\ pc' = "accumulate"
            /\ UNCHANGED <<err, ret>>
    /\ UNCHANGED <<inputs, where, branch, n_page, remain, i, df, df_, resp,
                   fetchLocals, authorized, sent, decoded>>

\* df = df_.copy() for the first page, pd.concat([df, df_]) afterwards
Merged(acc, page, p) == IF p = 0 THEN page ELSE Concat(acc, page)

Accumulate ==
    /\ pc = "accumulate"
    /\ df' = Merged(df, df_, i)
    /\ i' = i + 1
    /\ pc' = "loop"
    /\ UNCHANGED <<inputs, where, branch, n_page, remain, last_id, df_, resp,
                   fetchLocals, authorized, sent, decoded, err, ret>>

\* df.reset_index(drop=True, inplace=True); df is still the list [] when
\* no page was fetched
Reindex ==
    /\ pc = "reset_index"
    /\ IF ~df.isframe
       THEN /\ Raise(Error("AttributeError"))
            /\ UNCHANGED df
       ELSE /\ df' = ResetIndex(df)
            /\ pc' = "return"
            /\ UNCHANGED <<err, ret>>
    /\ UNCHANGED <<inputs, where, loopVars, df_, resp, fetchLocals, authorized,
                   sent, decoded>>

Return ==
    /\ pc = "return"
    /\ ret' = [returned |-> TRUE, value |-> df]
    /\ pc' = "done"
    /\ UNCHANGED <<inputs, where, loopVars, df, df_, resp, fetchLocals,
                   authorized, sent, decoded, err>>

Next ==
    \/ Query
    \/ LoopHead
    \/ FetchVars
    \/ FetchAuthorize
    \/ FetchFields
    \/ FetchBody
    \/ FetchSend
    \/ FetchStatus
    \/ FromResponse
    \/ UpdateLastId
    \/ Accumulate
    \/ Reindex
    \/ Return

Spec == Init /\ [][Next]_vars

\* ================================================================= claims
HasR == "returned_number" \in DOMAIN requested

R == requested["returned_number"]

\* the loop is over: every planned page was fetched and decoded
LoopOver == pc \in {"reset_index", "return", "done"} \/ err.type = "AttributeError"

PlannedPages == (R + max_count - 1) \div max_count

PlannedSize(k) ==
    IF k < PlannedPages THEN max_count
    ELSE IF R % max_count # 0 THEN R % max_count ELSE max_count

\* C1: with a requested total R and page size M the plan has ceil(R / M)
\* pages; every page but the last asks for M rows and the last for R mod M
\* rows, or M when that remainder is 0.
C1_PagePlan ==
    (HasR /\ table \in DOMAIN Tables) =>
        /\ pc # "query" => n_page = PlannedPages
        /\ Len(sent) <= PlannedPages
        /\ LoopOver => Len(sent) = PlannedPages
        /\ \A k \in 1..Len(sent) : sent[k].vars[count_key] = PlannedSize(k)

C1_Witness ==
    /\ pc = "done" /\ HasR /\ max_count = 2 /\ R = 5
    /\ Len(sent) = 3
    /\ sent[3].vars[count_key] = 1

\* the rows of page p, as they sit in the accumulated table
RowsOfPage(p) == {j \in 1..Len(df.rows) : df.rows[j].data[1] = p}

LastRowOfPage(p) == CHOOSE j \in RowsOfPage(p) : \A x \in RowsOfPage(p) : x <= j

\* the variables the caller and the connector supplied, before the engine
\* wrote any pagination parameter
CallerVars == MergeDicts(self_vars, requested)

\* C2: under the cursor strategy page 0 carries no engine-injected cursor
\* parameter, and page i > 0 carries the integer value of the cursor column
\* in the last row of page i-1, minus 1 (one decrement).
C2_CursorSingleDecrement ==
    pag_type = "cursor" =>
        \A k \in 1..Len(sent) :
            IF k = 1
            THEN /\ (cursor_key \in DOMAIN sent[k].vars) = (cursor_key \in DOMAIN CallerVars)
                 /\ cursor_key \in DOMAIN CallerVars
                        => sent[k].vars[cursor_key] = CallerVars[cursor_key]
            ELSE sent[k].vars[cursor_key] = IntOf(df.rows[LastRowOfPage(k - 2)].id) - 1

\* what the code sends instead: the cell's value minus 2
C2_CodeSendsDoubleDecrement ==
    pag_type = "cursor" =>
        \A k \in 2..Len(sent) :
            sent[k].vars[cursor_key] = IntOf(df.rows[LastRowOfPage(k - 2)].id) - 2

\* C3: under the offset strategy with a requested total, page i carries the
\* offset i * max_count whatever its size; the last page may be shorter.
C3_OffsetPerPage ==
    (pag_type = "limit" /\ HasR) =>
        \A k \in 1..Len(sent) :
            /\ sent[k].page = k - 1
            /\ sent[k].vars[anchor_key] = (k - 1) * max_count

C3_Witness ==
    /\ pag_type = "limit" /\ HasR /\ max_count = 2 /\ R = 5
    /\ Len(sent) = 3
    /\ sent[3].vars[anchor_key] = 4
    /\ sent[3].vars[count_key] = 1

\* C4: a table whose pagination type is none gets exactly one page request,
\* whatever "returned_number" the caller passes.
C4_NoneSingleRequest ==
    (pag_type = "none" /\ table \in DOMAIN Tables) =>
        /\ Len(sent) <= 1
        /\ pc = "done" => Len(sent) = 1

\* the rows the source delivered, over the pages decoded so far
RECURSIVE RowsDelivered(_)
RowsDelivered(k) == IF k = 0 THEN 0 ELSE RowsDelivered(k - 1) + decoded[k].nrows

\* every page request was answered with as many rows as it asked for: the
\* source had the rows the caller wanted
SourceFilledEveryPage ==
    /\ Len(decoded) = Len(sent)
    /\ \A k \in 1..Len(sent) : decoded[k].nrows = sent[k].vars[count_key]

RECURSIVE RowsInPageOrder(_)
RowsInPageOrder(k) ==
    IF k = 0 THEN <<>>
    ELSE RowsInPageOrder(k - 1) \o
         [j \in 1..decoded[k].nrows |-> <<decoded[k].page, j - 1>>]

\* C6: the table a paged query returns is the concatenation of the decoded
\* pages in page order, rows of a page in their order; it has as many rows
\* as the pages together and its index is 0..n-1.
C6_ConcatInOrder ==
    (pc = "done" /\ branch = "paged") =>
        LET rows == ret.value.rows
        IN /\ Len(rows) = RowsDelivered(Len(decoded))
           /\ [j \in 1..Len(rows) |-> rows[j].data] = RowsInPageOrder(Len(decoded))
           /\ \A j \in 1..Len(rows) : rows[j].index = j - 1

C6_Witness ==
    /\ pc = "done" /\ branch = "paged"
    /\ Len(decoded) = 3
    /\ decoded[1].nrows = 2 /\ decoded[2].nrows = 1 /\ decoded[3].nrows = 1
    /\ Len(ret.value.rows) = 4

\* C7: no page request asks for more than max_count rows, with or without
\* a requested total and under every pagination type.
C7_PageSizeBounded ==
    /\ \A k \in 1..Len(sent) : sent[k].vars[count_key] <= max_count
    /\ pc \in {"fetch_auth", "fetch_fields", "fetch_body", "fetch_send"}
           => merged_vars[count_key] <= max_count

C7_Witness ==
    /\ HasR /\ R > max_count
    /\ count_key \in DOMAIN requested /\ requested[count_key] > max_count
    /\ Len(sent) = 2

SuccessStatus(code) == code \in 200..299

\* the query ended in an exception: nothing is returned, and the requests
\* sent are those of pages 0..i at most, one each
Aborted ==
    /\ pc = "error"
    /\ err.type # "none"
    /\ ~ret.returned
    /\ ret.value.rows = <<>>
    /\ Len(sent) <= i + 1
    /\ \A k \in 1..Len(sent) : sent[k].page = k - 1

\* C8: a page whose fetch or decode fails (transport error, non-success
\* status, decode error, missing cursor column) ends the query with that
\* error: no rows of earlier pages are returned, no later page is requested
\* and the page is not retried.
C8_FailFast ==
    [][ /\ pc # "error"
        /\ (pc = "fetch_status" /\ ~SuccessStatus(resp.status_code))
               => (Aborted' /\ err'.type = "RequestError" /\ sent' = sent)
        /\ (pc = "last_id" /\ pag_type = "cursor" /\ cursor_id \notin df_.columns)
               => (Aborted' /\ sent' = sent)
        /\ resp'.raised => (Aborted' /\ Len(sent') = Len(sent) + 1)
        /\ err'.type = "DecodeError" => (Aborted' /\ sent' = sent)
        /\ pc' = "error" => Aborted'
      ]_vars

C8_Witness ==
    /\ pc = "error"
    /\ err.type = "RequestError"
    /\ i = 2
    /\ Len(df.rows) = 2
    /\ Len(sent) = 3
    /\ ~ret.returned

\* C9: a response reaches the decoder only when the transport reported a
\* success status; a non-success status raises a RequestError carrying that
\* response's status code and body, and the response is never decoded.
C9_StatusGate ==
    /\ \A k \in 1..Len(decoded) :
           /\ ~decoded[k].resp.raised
           /\ SuccessStatus(decoded[k].resp.status_code)
    /\ (Len(sent) > 0 /\ ~resp.raised /\ ~SuccessStatus(resp.status_code)
            /\ pc # "fetch_status")
           => /\ pc = "error"
              /\ err = [type |-> "RequestError",
                        status_code |-> resp.status_code,
                        message |-> resp.text]
              /\ Len(decoded) = Len(sent) - 1

C9_Witness ==
    /\ pc = "error"
    /\ resp.status_code = 404 /\ resp.text = "gone"
    /\ err.type = "RequestError" /\ err.status_code = 404 /\ err.message = "gone"
    /\ Len(decoded) = 1 /\ Len(sent) = 2

\* C10: a query for a table the source does not have fails before any
\* request is built or sent, whatever the call's parameters.
C10_UnknownTableNoNetwork ==
    table \notin DOMAIN Tables =>
        /\ pc \in {"query", "error"}
        /\ pc = "error" => err.type = "AssertionError"
        /\ sent = <<>>
        /\ authorized = <<>>
        /\ req_data = EmptyDict
        /\ merged_vars = EmptyDict
        /\ ~ret.returned

C10_Witness ==
    /\ table \notin DOMAIN Tables
    /\ pc = "error"
    /\ err.type = "AssertionError"
    /\ HasR /\ R > max_count
    /\ auth_params # EmptyDict

FreshReqData == [headers |-> EmptyDict, params |-> EmptyDict, cookies |-> EmptyDict]

\* the credentials the call asked for
CallAuth == IF auth_params # EmptyDict THEN auth_params ELSE self_auth

\* C11: for a table with an authorizer, the authorizer is invoked exactly
\* once per page request, on that page's fresh request descriptor and
\* before any field group is rendered; a rendered key that collides with a
\* key the authorizer wrote overwrites it.
C11_AuthorizeOncePerPageFirst ==
    (table \in DOMAIN Tables /\ Tables[table].authorization) =>
        /\ Len(sent) <= Len(authorized)
        /\ Len(authorized) <= Len(sent) + 1
        /\ \A k \in 1..Len(authorized) :
               /\ authorized[k].page = k - 1
               /\ authorized[k].req = FreshReqData
               /\ authorized[k].auth = CallAuth
        /\ \A k \in 1..Len(sent) :
               LET h == Tables[table].headers
                   collides == h.defined /\ "Authorization" \in TemplateKeys(h)
               IN sent[k].req["headers"]["Authorization"] =
                      IF collides
                      THEN Rendered(sent[k].vars[h.fields["Authorization"].var])
                      ELSE <<"Bearer", CallAuth.token>>

C11_Witness ==
    /\ table = "signed"
    /\ auth_params # EmptyDict
    /\ Len(sent) = 2 /\ Len(authorized) = 2
    /\ sent[2].req["headers"]["Authorization"] = Rendered(7)

\* C12: when all pages succeed, exactly the planned number of requests is
\* sent, in increasing page order, and the request of a page is sent only
\* after the page before it was received and decoded.
C12_SequentialSends ==
    (table \in DOMAIN Tables /\ HasR) =>
        /\ \A k \in 1..Len(sent) : sent[k].page = k - 1
        /\ \A k \in 1..Len(decoded) : decoded[k].page = k - 1
        /\ Len(decoded) <= Len(sent)
        /\ Len(sent) <= Len(decoded) + 1
        /\ pc = "fetch_send" => (Len(decoded) = Len(sent) /\ Len(df.rows) = RowsDelivered(Len(decoded)))
        /\ pc = "done" => (Len(sent) = PlannedPages /\ Len(decoded) = PlannedPages)

C12_Witness ==
    /\ pc = "done" /\ pag_type = "limit" /\ max_count = 2 /\ HasR /\ R = 5
    /\ [k \in 1..Len(sent) |-> sent[k].vars[count_key]] = <<2, 2, 1>>
    /\ [k \in 1..Len(sent) |-> sent[k].vars[anchor_key]] = <<0, 2, 4>>
    /\ Len(ret.value.rows) = 5

\* the count the engine computed for the page being fetched
CurrentPageSize == IF HasR THEN PlannedSize(i + 1) ELSE max_count

\* C13: "returned_number" is renamed to the configured count key before
\* any field group is rendered: at every render step the context has no
\* "returned_number" and the count key holds the page's computed size.
C13_RenameBeforeRender ==
    /\ pc \in {"fetch_auth", "fetch_fields", "fetch_body", "fetch_send"} =>
           /\ "returned_number" \notin DOMAIN merged_vars
           /\ count_key \in DOMAIN merged_vars
           /\ merged_vars[count_key] = CurrentPageSize
    /\ \A k \in 1..Len(sent) :
           /\ "returned_number" \notin DOMAIN sent[k].vars
           /\ \A key \in {"params", "cookies"} :
                  \A f \in DOMAIN sent[k].req[key] :
                      Tables[table][key].fields[f].var = count_key
                          => sent[k].req[key][f] = Rendered(sent[k].vars[count_key])

C13_Witness ==
    /\ pc = "fetch_fields" /\ key_ix = 2
    /\ table = "search"
    /\ HasR /\ R = 3 /\ max_count = 2 /\ i = 1
    /\ count_key \in DOMAIN requested
    /\ merged_vars[count_key] = 1

GroupKeys == {"headers", "params", "cookies", "body"}

\* a defined field group of the table has a template whose variable is not
\* in the context
SomeMissing(ctx) ==
    \E key \in GroupKeys :
        LET g == Tables[table][key]
        IN g.defined /\ \E f \in TemplateKeys(g) : g.fields[f].var \notin DOMAIN ctx

\* the entry of the request that holds the rendering of a group
ReqEntry(key) ==
    IF key # "body" THEN key
    ELSE IF Tables[table].body_ctype = "application/json" THEN "json" ELSE "data"

\* every field the request carries is the text of its variable's value
RenderedFromContext(rq) ==
    \A key \in GroupKeys :
        LET g == Tables[table][key]
        IN g.defined =>
               \A f \in TemplateKeys(g) :
                   rq.req[ReqEntry(key)][f] = Rendered(rq.vars[g.fields[f].var])

\* C14: when a template of any defined field group refers to a variable
\* that is not in the merged context, the page fetch fails with an error and
\* nothing is sent for that page; the variable is never rendered as an empty
\* or default value.
C14_UndefinedVariableFails ==
    table \in DOMAIN Tables =>
        /\ \A k \in 1..Len(sent) :
               /\ ~SomeMissing(sent[k].vars)
               /\ RenderedFromContext(sent[k])
        /\ pc = "fetch_send" => ~SomeMissing(merged_vars)
        /\ (merged_vars # EmptyDict /\ SomeMissing(merged_vars)
                /\ pc \notin {"loop", "fetch", "fetch_auth", "fetch_fields", "fetch_body"})
               => /\ pc = "error"
                  /\ err.type = "UndefinedError"
                  /\ Len(sent) = i
        /\ err.type = "UndefinedError" => SomeMissing(merged_vars)

C14_Witness ==
    /\ table = "post"
    /\ pc = "error" /\ err.type = "UndefinedError"
    /\ "agent" \in DOMAIN req_data["headers"]
    /\ "n" \in DOMAIN req_data["cookies"]
    /\ "q" \notin DOMAIN merged_vars
    /\ sent = <<>>

\* the pagination entries of a context
PaginationPart(ctx) == [x \in (DOMAIN ctx) \cap {cursor_key, anchor_key} |-> ctx[x]]

C16_NoTotalSinglePage ==
    (table \in DOMAIN Tables /\ ~HasR) =>
        /\ branch # "paged"
        /\ Len(sent) <= 1
        /\ \A k \in 1..Len(sent) :
               /\ sent[k].vars[count_key] = max_count
               /\ Pop(sent[k].vars, count_key) = Pop(CallerVars, count_key)
        /\ pc = "done" =>
               /\ Len(sent) = 1 /\ Len(decoded) = 1
               /\ ret.returned
               /\ ret.value.isframe
               /\ [j \in 1..Len(ret.value.rows) |-> ret.value.rows[j].data] = RowsInPageOrder(1)
               /\ \A j \in 1..Len(ret.value.rows) : ret.value.rows[j].index = j - 1

C16_Witness ==
    /\ pc = "done" /\ ~HasR
    /\ pag_type = "limit"
    /\ max_count = 2
    /\ Len(ret.value.rows) = 2
    /\ anchor_key \notin DOMAIN sent[1].vars

IsForm(t) == t.body_ctype = "application/x-www-form-urlencoded"

IsJson(t) == t.body_ctype = "application/json"

\* C17: a table with a body whose content type is neither form-urlencoded
\* nor json fails when the request is built, with nothing sent; a form body
\* goes out as the form data only and a json body as the json only.
C17_BodyContentType ==
    table \in DOMAIN Tables =>
        LET t == Tables[table]
        IN /\ \A k \in 1..Len(sent) :
                  LET rq == sent[k].req
                      body == [f \in TemplateKeys(t.body) |->
                                  Rendered(sent[k].vars[t.body.fields[f].var])]
                  IN IF ~t.body.defined
                     THEN "data" \notin DOMAIN rq /\ "json" \notin DOMAIN rq
                     ELSE IF IsForm(t)
                     THEN "data" \in DOMAIN rq /\ "json" \notin DOMAIN rq /\ rq["data"] = body
                     ELSE /\ IsJson(t)
                          /\ "json" \in DOMAIN rq /\ "data" \notin DOMAIN rq
                          /\ rq["json"] = body
           /\ (t.body.defined /\ ~IsForm(t) /\ ~IsJson(t)) =>
                  /\ sent = <<>>
                  /\ pc \notin {"fetch_send", "fetch_status", "from_response", "done"}
                  /\ (pc = "error" /\ merged_vars # EmptyDict)
                         => err.type = "UnreachableError"

C17_Witness ==
    /\ table = "blob"
    /\ pc = "error" /\ err.type = "UnreachableError"
    /\ HasR /\ R = 5
    /\ sent = <<>>

\* C18: under the cursor strategy with a requested total the cursor column
\* is read from the last row of every fetched page, the final page of the
\* plan included, so a page of zero rows aborts the query even when no later
\* request would use the cursor.
C18_CursorReadOnEveryPage ==
    [][ (pc = "last_id" /\ pag_type = "cursor") =>
            IF Len(df_.rows) = 0 \/ cursor_id \notin df_.columns
            THEN /\ pc' = "error"
                 /\ err'.type = "KeyError"
                 /\ ~ret'.returned
            ELSE IsNumeral(df_.rows[Len(df_.rows)].id) =>
                     /\ last_id' = IntOf(df_.rows[Len(df_.rows)].id) - 1
                     /\ pc' = "accumulate"
      ]_vars

C18_Witness ==
    /\ pag_type = "cursor" /\ HasR
    /\ pc = "error" /\ err.type = "KeyError"
    /\ i = n_page - 1 /\ i = 2
    /\ df_.isframe /\ Len(df_.rows) = 0
    /\ Len(df.rows) > 0
    /\ Len(sent) = n_page

\* C19: the number of page requests is fixed when the plan is made: every
\* one of the ceil(R / M) planned requests is issued even after a page that
\* came back with fewer rows than asked for, or with none.
C19_NoEarlyStop ==
    [][ (pc = "loop" /\ HasR) =>
            IF i < PlannedPages
            THEN pc' = "fetch"
            ELSE /\ pc' = "reset_index"
                 /\ Len(sent) = PlannedPages
                 /\ Len(decoded) = PlannedPages
      ]_vars

C19_Witness ==
    /\ pc = "done" /\ HasR /\ R = 5 /\ max_count = 2
    /\ pag_type = "none"
    /\ Len(sent) = 3
    /\ decoded[1].nrows = 0 /\ decoded[2].nrows = 1 /\ decoded[3].nrows = 1

\* C20: a requested total of 0 gives an empty plan and no request, and the
\* query does not return an empty table: it ends in an error, reset_index
\* being applied to the list df was initialised with.
C20_ZeroTotalFails ==
    (table \in DOMAIN Tables /\ HasR /\ R = 0) =>
        /\ pc # "query" => n_page = 0
        /\ sent = <<>>
        /\ authorized = <<>>
        /\ pc \in {"query", "loop", "reset_index", "error"}
        /\ ~ret.returned
        /\ pc = "error" => (err.type = "AttributeError" /\ ~df.isframe)

C20_Witness ==
    /\ table \in DOMAIN Tables /\ HasR /\ R = 0
    /\ pc = "error" /\ err.type = "AttributeError"
    /\ sent = <<>>

====
